---- MODULE Spec2Model ----
(***************************************************************************)
(* Device configuration sample: SLIP frame codec, frame extractor and      *)
(* dispatcher, length-prefixed reassembler, JSON reassembler with its      *)
(* response future, firmware-info reader and the provisioning main().      *)
(* Each component has its own specification over a shared set of           *)
(* variables; the variables of the other components stay at their idle     *)
(* values.                                                                 *)
(***************************************************************************)
EXTENDS Integers, Sequences, FiniteSets, TLC

VARIABLES
  \* Slip.encode / Slip.decode applied to one input
  slipData, slipEncoded, slipDecoded, slipPc,
  \* SlipSerialReader / SlipDispatcher: buffer, handler map, event-loop tasks
  rdFed, buffer, handler_map, tasks, ready, dispatched,
  \* ProtobufDelimitedBuffer: the messages sent, bytes fed, buffer, consumer log
  pbMsgs, pbPos, pbSplit, pbBuffer, pbOut,
  \* SettingsHandler: text sent on the settings channel, reassembly state,
  \* response future, the caller of wait_response and its calls
  shStream, shPos, sh_buffer, brace_count, in_json, response_future,
  shCaller, shWaits,
  \* FWInfoReader: serial future, serials received, the caller of wait_serial
  serial_future, fwSeen, fwCaller, fwRet,
  \* main(): position, locals, transports, frames written, outcome logged,
  \* and the device on the other end of the serial line
  pc, transport, transports, written, serial, signed_settings, attempt,
  outcome, mFailed, signCalls, mAttempts, mFirstOk, devSettings, inflight,
  \* what the run went through: the settings the device started with, whether
  \* the device ever failed a request (or the port failed to open), whether
  \* a wait_response timed out
  devInitial, devFaulty, mTimedOut,
  \* SettingsHandler.verify applied to one pair of dicts: what it logged and
  \* what it returned
  vfExpected, vfReceived, vfLog, vfResult, vfPc

codecVars == <<slipData, slipEncoded, slipDecoded, slipPc>>
readerVars == <<rdFed, buffer, handler_map, tasks, ready, dispatched>>
pbVars == <<pbMsgs, pbPos, pbSplit, pbBuffer, pbOut>>
shVars == <<shStream, shPos, sh_buffer, brace_count, in_json, response_future,
            shCaller, shWaits>>
fwVars == <<serial_future, fwSeen, fwCaller, fwRet>>
mainVars == <<pc, transport, transports, written, serial, signed_settings,
              attempt, outcome, mFailed, signCalls, mAttempts, mFirstOk,
              devSettings, inflight, devInitial, devFaulty, mTimedOut>>
verifyVars == <<vfExpected, vfReceived, vfLog, vfResult, vfPc>>
vars == <<codecVars, readerVars, pbVars, shVars, fwVars, mainVars, verifyVars>>

\* the variables of the other components
notCodec == <<readerVars, pbVars, shVars, fwVars, mainVars, verifyVars>>
notReader == <<codecVars, pbVars, shVars, fwVars, mainVars, verifyVars>>
notPb == <<codecVars, readerVars, shVars, fwVars, mainVars, verifyVars>>
notHandlers == <<codecVars, readerVars, pbVars, mainVars, verifyVars>>
notVerify == <<codecVars, readerVars, pbVars, shVars, fwVars, mainVars>>
\* main() uses response_future and serial_future of the two handlers
notMain == <<codecVars, readerVars, pbVars, shStream, shPos, sh_buffer,
             brace_count, in_json, shCaller, shWaits, fwSeen, fwCaller, fwRet,
             verifyVars>>

\* ------------------------------------------------------------------ helpers

SeqsUpTo(S, n) == UNION {[1..k -> S] : k \in 0..n}

Drop(s, n) == SubSeq(s, n + 1, Len(s))

Take(s, n) == SubSeq(s, 1, n)

IsPrefix(p, s) == Len(p) <= Len(s) /\ Take(s, Len(p)) = p

\* ------------------------------------------------------------------ Slip

END == 10
ESC == 219
ESC_END == 220
ESC_ESC == 221

\* bytes.replace(old, new): leftmost non-overlapping occurrences, old non-empty
RECURSIVE Replace(_, _, _)
Replace(s, old, new) ==
  IF Len(s) < Len(old) THEN s
  ELSE IF Take(s, Len(old)) = old
       THEN new \o Replace(Drop(s, Len(old)), old, new)
       ELSE <<Head(s)>> \o Replace(Tail(s), old, new)

RECURSIVE LStrip(_, _)
LStrip(s, b) ==
  IF s # <<>> /\ Head(s) = b THEN LStrip(Tail(s), b) ELSE s

RECURSIVE RStrip(_, _)
RStrip(s, b) ==
  IF s # <<>> /\ s[Len(s)] = b THEN RStrip(Take(s, Len(s) - 1), b) ELSE s

\* bytes.strip(b) for a single byte b
Strip(s, b) == RStrip(LStrip(s, b), b)

\* mutant of Encode: the END bytes of the data are not escaped
EncodeNoEndEscape(data) ==
  Replace(data, <<ESC>>, <<ESC, ESC_ESC>>) \o <<END>>

Encode(data) ==
  Replace(Replace(data, <<ESC>>, <<ESC, ESC_ESC>>), <<END>>, <<ESC, ESC_END>>)
    \o <<END>>

Decode(data) ==
  Strip(Replace(Replace(data, <<ESC, ESC_ESC>>, <<ESC>>),
                <<ESC, ESC_END>>, <<END>>), END)

\* ------------------------------------------------------------ codec spec

MaxData == 3
CodecBytes == {END, ESC, ESC_END, ESC_ESC, 65}

CodecOff ==
  /\ slipData = <<>>
  /\ slipEncoded = <<>>
  /\ slipDecoded = <<>>
  /\ slipPc = "off"

ReaderOff ==
  /\ rdFed = <<>>
  /\ buffer = <<>>
  /\ handler_map = <<>>
  /\ tasks = <<>>
  /\ ready = <<>>
  /\ dispatched = <<>>

PbOff ==
  /\ pbMsgs = <<>>
  /\ pbPos = 0
  /\ pbSplit = FALSE
  /\ pbBuffer = <<>>
  /\ pbOut = <<>>

\* JSON values: a string, an object (its members in order) or Python's None
JStr(cs) == [t |-> "str", s |-> cs, m |-> <<>>]
JObj(members) == [t |-> "obj", s |-> <<>>, m |-> members]
JNone == [t |-> "none", s |-> <<>>, m |-> <<>>]

NoFuture == [state |-> "none", result |-> JNone]
NoSerialFuture == [state |-> "none", result |-> ""]

ShRestOff ==
  /\ shStream = <<>>
  /\ shPos = 0
  /\ sh_buffer = <<>>
  /\ brace_count = 0
  /\ in_json = FALSE
  /\ shCaller = "off"
  /\ shWaits = <<>>

ShOff == ShRestOff /\ response_future = NoFuture

FwRestOff ==
  /\ fwSeen = <<>>
  /\ fwCaller = "off"
  /\ fwRet = ""

FwOff == FwRestOff /\ serial_future = NoSerialFuture

HandlersOff == ShOff /\ FwOff

MainOff ==
  /\ pc = "off"
  /\ transport = 0
  /\ transports = <<>>
  /\ written = <<>>
  /\ serial = ""
  /\ signed_settings = <<>>
  /\ attempt = 0
  /\ outcome = ""
  /\ mFailed = {}
  /\ signCalls = <<>>
  /\ mAttempts = 0
  /\ mFirstOk = 0
  /\ devSettings = <<>>
  /\ inflight = <<>>
  /\ devInitial = <<>>
  /\ devFaulty = FALSE
  /\ mTimedOut = FALSE

VerifyOff ==
  /\ vfExpected = <<>>
  /\ vfReceived = <<>>
  /\ vfLog = <<>>
  /\ vfResult = FALSE
  /\ vfPc = "off"

CodecInit ==
  /\ slipData \in SeqsUpTo(CodecBytes, MaxData)
  /\ slipEncoded = <<>>
  /\ slipDecoded = <<>>
  /\ slipPc = "input"

DoEncode ==
  /\ slipPc = "input"
  /\ slipEncoded' = Encode(slipData)
  /\ slipPc' = "encoded"
  /\ UNCHANGED <<slipData, slipDecoded>>
  /\ UNCHANGED notCodec

DoDecode ==
  /\ slipPc = "encoded"
  /\ slipDecoded' = Decode(slipEncoded)
  /\ slipPc' = "decoded"
  /\ UNCHANGED <<slipData, slipEncoded>>
  /\ UNCHANGED notCodec

CodecNext == DoEncode \/ DoDecode

CodecSpecInit ==
  CodecInit /\ ReaderOff /\ PbOff /\ HandlersOff /\ MainOff /\ VerifyOff

CodecSpec == CodecSpecInit /\ [][CodecNext]_vars

\* C1: for every byte sequence x, Slip.decode(Slip.encode(x)) = x.
C1_RoundTrip == slipPc = "decoded" => slipDecoded = slipData

\* C13: Slip.encode(x) holds the END byte only as its last byte, and every
\* ESC byte in it is followed by ESC_END or ESC_ESC.
C13_EncodedWellFormed ==
  slipPc \in {"encoded", "decoded"} =>
    LET e == slipEncoded
    IN /\ Len(e) >= 1
       /\ e[Len(e)] = END
       /\ \A i \in 1..(Len(e) - 1) : e[i] # END
       /\ \A i \in 1..Len(e) :
            e[i] = ESC => i < Len(e) /\ e[i + 1] \in {ESC_END, ESC_ESC}

\* an input with an END byte, a literal ESC ESC_END pair and a last ESC byte
C13_Witness ==
  /\ slipPc = "encoded"
  /\ Len(slipData) = MaxData
  /\ \E i \in 1..Len(slipData) : slipData[i] = END
  /\ \E i \in 1..Len(slipData) : slipData[i] = ESC
  /\ slipData[Len(slipData)] \in {ESC, ESC_END}

\* ------------------------------------------------- frame extractor, dispatch

MaxStream == 4
MaxChunk == 2
MaxHandlers == 2
\* the bytes on the line: the end marker, the escape marker, and a byte that
\* is both the second byte of an escaped END and the address handlers are
\* registered for
ReaderBytes == {END, ESC, ESC_END}
RegAddrs == {ESC_END}
\* behaviours of a registered coroutine: returns at once, raises at once,
\* awaits once and then returns
HandlerKinds == {"ok", "raise", "slow"}

HasEnd(buf) == \E i \in 1..Len(buf) : buf[i] = END

\* bytearray.index(Slip.END) (1-based)
EndIndex(buf) == CHOOSE i \in 1..Len(buf) :
                   buf[i] = END /\ \A j \in 1..(i - 1) : buf[j] # END

\* the raw packets the while loop of data_received cuts off, in order
RECURSIVE ExtractPackets(_)
ExtractPackets(buf) ==
  IF ~HasEnd(buf) THEN <<>>
  ELSE <<Take(buf, EndIndex(buf))>> \o ExtractPackets(Drop(buf, EndIndex(buf)))

\* mutant of Remainder: the buffer is cleared after the loop
RemainderCleared(buf) == <<>>

\* what the while loop of data_received leaves in self.buffer
RECURSIVE Remainder(_)
Remainder(buf) ==
  IF ~HasEnd(buf) THEN buf ELSE Remainder(Drop(buf, EndIndex(buf)))

PacketTask(packet) ==
  [kind |-> "pp", pc |-> "new", packet |-> packet, parent |-> 0,
   beh |-> "none", err |-> FALSE]

HandlerTask(p, payload, h) ==
  [kind |-> "h", pc |-> "new", packet |-> payload, parent |-> p,
   beh |-> h, err |-> FALSE]

\* handler_map.get(address, [])
HandlersFor(address) ==
  IF address \in DOMAIN handler_map THEN handler_map[address] ELSE <<>>

NumHandlers ==
  LET RECURSIVE Sum(_)
      Sum(S) == IF S = {} THEN 0
                ELSE LET a == CHOOSE x \in S : TRUE
                     IN Len(handler_map[a]) + Sum(S \ {a})
  IN Sum(DOMAIN handler_map)

\* called before start(), as both main() do
RegisterHandler(address, handler) ==
  /\ rdFed = <<>>
  /\ NumHandlers < MaxHandlers
  /\ handler_map' =
       [a \in DOMAIN handler_map \cup {address} |->
          IF a = address THEN Append(HandlersFor(address), handler)
          ELSE handler_map[a]]
  /\ UNCHANGED <<rdFed, buffer, tasks, ready, dispatched>>
  /\ UNCHANGED notReader

DataReceived(data) ==
  /\ Len(rdFed) + Len(data) <= MaxStream
  /\ LET buf == buffer \o data
         pkts == ExtractPackets(buf)
         n == Len(tasks)
     IN /\ tasks' = tasks \o [i \in 1..Len(pkts) |-> PacketTask(pkts[i])]
        /\ ready' = ready \o [i \in 1..Len(pkts) |-> n + i]
        /\ buffer' = Remainder(buf)
  /\ rdFed' = rdFed \o data
  /\ UNCHANGED <<handler_map, dispatched>>
  /\ UNCHANGED notReader

Children(ts, p) == {i \in 1..Len(ts) : ts[i].kind = "h" /\ ts[i].parent = p}

Finished(t) == t.pc \in {"done", "failed"}

\* process_packet up to its await (or its return)
StartProcessPacket ==
  /\ ready # <<>>
  /\ LET t == Head(ready)
         decoded == Decode(tasks[t].packet)
     IN /\ tasks[t].kind = "pp"
        /\ tasks[t].pc = "new"
        /\ IF decoded = <<>>
           THEN /\ tasks' = [tasks EXCEPT ![t].pc = "done"]
                /\ ready' = Tail(ready)
                /\ UNCHANGED dispatched
           ELSE LET address == decoded[1]
                    payload == Tail(decoded)
                    handlers == HandlersFor(address)
                    n == Len(tasks)
                IN /\ dispatched' = Append(dispatched,
                         [address |-> address, payload |-> payload])
                   /\ IF handlers = <<>>
                      THEN /\ tasks' = [tasks EXCEPT ![t].pc = "done"]
                           /\ ready' = Tail(ready)
                      ELSE /\ tasks' = [tasks EXCEPT ![t].pc = "gather"] \o
                                [i \in 1..Len(handlers) |->
                                   HandlerTask(t, payload, handlers[i])]
                           /\ ready' = Tail(ready) \o
                                [i \in 1..Len(handlers) |-> n + i]
  /\ UNCHANGED <<rdFed, buffer, handler_map>>
  /\ UNCHANGED notReader

\* asyncio.gather without return_exceptions: the awaiting process_packet is
\* resumed by the first child that raises, or by the last child to finish
GatherSettled(ts, p, t) ==
  /\ ts[p].pc = "gather"
  /\ \/ ts[t].pc = "failed"
     \/ \A c \in Children(ts, p) : Finished(ts[c])

\* one step of a handler coroutine scheduled by gather
RunHandler ==
  /\ ready # <<>>
  /\ LET t == Head(ready)
         p == tasks[t].parent
         pc2 == CASE tasks[t].beh = "raise" -> "failed"
                  [] tasks[t].beh = "slow" /\ tasks[t].pc = "new" -> "suspended"
                  [] OTHER -> "done"
         ts == [tasks EXCEPT ![t].pc = pc2]
     IN /\ tasks[t].kind = "h"
        /\ IF Finished(ts[t]) /\ GatherSettled(ts, p, t)
           THEN /\ tasks' = [ts EXCEPT ![p].pc = "woken",
                                       ![p].err = (ts[t].pc = "failed")]
                /\ ready' = Append(Tail(ready), p)
           ELSE /\ tasks' = ts
                /\ ready' = Tail(ready)
  /\ UNCHANGED <<rdFed, buffer, handler_map, dispatched>>
  /\ UNCHANGED notReader

\* what a suspended handler awaits completes
WakeHandler(t) ==
  /\ tasks[t].kind = "h"
  /\ tasks[t].pc = "suspended"
  /\ tasks' = [tasks EXCEPT ![t].pc = "woken"]
  /\ ready' = Append(ready, t)
  /\ UNCHANGED <<rdFed, buffer, handler_map, dispatched>>
  /\ UNCHANGED notReader

\* mutant of ProcessPacketEnd: no try/except around the body
ProcessPacketEndUncaught(err) == IF err THEN "raised" ELSE "done"

\* how process_packet ends when gather returned (err false) or raised:
\* `except Exception` logs the error and the coroutine returns
ProcessPacketEnd(err) == "done"

\* process_packet after its await: returns, or catches and logs the exception
ResumeProcessPacket ==
  /\ ready # <<>>
  /\ LET t == Head(ready)
     IN /\ tasks[t].kind = "pp"
        /\ tasks[t].pc = "woken"
        /\ tasks' = [tasks EXCEPT ![t].pc = ProcessPacketEnd(tasks[t].err)]
        /\ ready' = Tail(ready)
  /\ UNCHANGED <<rdFed, buffer, handler_map, dispatched>>
  /\ UNCHANGED notReader

ReaderInit ==
  /\ rdFed = <<>>
  /\ buffer = <<>>
  /\ handler_map = <<>>
  /\ tasks = <<>>
  /\ ready = <<>>
  /\ dispatched = <<>>

ReaderNext ==
  \/ \E a \in RegAddrs, h \in HandlerKinds : RegisterHandler(a, h)
  \/ \E d \in SeqsUpTo(ReaderBytes, MaxChunk) \ {<<>>} : DataReceived(d)
  \/ StartProcessPacket
  \/ RunHandler
  \/ \E t \in 1..Len(tasks) : WakeHandler(t)
  \/ ResumeProcessPacket

ReaderSpecInit ==
  ReaderInit /\ CodecOff /\ PbOff /\ HandlersOff /\ MainOff /\ VerifyOff

ReaderSpec == ReaderSpecInit /\ [][ReaderNext]_vars

\* the (address, payload) pairs process_packet gets from raw packets, the
\* packets that decode to nothing left out
RECURSIVE FramesOf(_)
FramesOf(pkts) ==
  IF pkts = <<>> THEN <<>>
  ELSE LET d == Decode(Head(pkts))
       IN (IF d = <<>> THEN <<>>
           ELSE <<[address |-> d[1], payload |-> Tail(d)]>>)
          \o FramesOf(Tail(pkts))

NoPacketWaiting ==
  \A i \in 1..Len(tasks) : tasks[i].kind = "pp" => tasks[i].pc # "new"

\* C5: however the byte stream is cut into data_received calls, the frames
\* dispatched so far are, in order, frames of the whole stream passed in one
\* call, and once every extracted packet has been processed they are all of
\* them.
C5_ChunkingIndependent ==
  LET whole == FramesOf(ExtractPackets(rdFed))
  IN /\ IsPrefix(dispatched, whole)
     /\ NoPacketWaiting => dispatched = whole

\* a frame longer than any single chunk has been dispatched, and a second
\* packet was extracted from the stream
C5_Witness ==
  /\ NoPacketWaiting
  /\ Len(tasks) >= 2
  /\ Len(dispatched) = 1
  /\ Len(dispatched[1].payload) + 2 > MaxChunk

\* C10: processing of a frame finishes only once every handler invoked for
\* it has completed or failed, also when one of them raises; without a
\* registered handler nothing is invoked and nothing is raised.
C10_FrameJoinsAllHandlers ==
  \A p \in 1..Len(tasks) :
    (tasks[p].kind = "pp" /\ tasks[p].pc = "done") =>
      /\ \A c \in Children(tasks, p) : Finished(tasks[c])
      /\ Children(tasks, p) = {} => ~tasks[p].err

PacketTasks == {i \in 1..Len(tasks) : tasks[i].kind = "pp"}

HandlerTasks == {i \in 1..Len(tasks) : tasks[i].kind = "h"}

\* the number of handlers registered for the frames of fs, added up
RECURSIVE HandlersOfFrames(_)
HandlersOfFrames(fs) ==
  IF fs = <<>> THEN 0
  ELSE Len(HandlersFor(Head(fs).address)) + HandlersOfFrames(Tail(fs))

\* C17: an exception raised by a handler is caught inside process_packet, so
\* no process_packet task ever ends with an exception; every packet of the
\* stream gets its process_packet task, whatever happened to the packets
\* before it; once these tasks have run every frame of the stream has been
\* dispatched, and every frame dispatched had each handler of its address
\* invoked.
C17_ErrorConfined ==
  /\ \A t \in PacketTasks : tasks[t].pc \in {"new", "gather", "woken", "done"}
  /\ Cardinality(PacketTasks) =
       Cardinality({i \in 1..Len(rdFed) : rdFed[i] = END})
  /\ Cardinality(HandlerTasks) = HandlersOfFrames(dispatched)
  /\ NoPacketWaiting => dispatched = FramesOf(ExtractPackets(rdFed))

\* the handler of a first frame raised and process_packet caught it; a later
\* frame was dispatched and its handler ran
C17_Witness ==
  \E t, u \in PacketTasks :
    /\ t < u
    /\ tasks[t].pc = "done"
    /\ tasks[t].err
    /\ tasks[u].pc = "done"
    /\ Children(tasks, u) # {}
    /\ \A c \in Children(tasks, u) : Finished(tasks[c])
    /\ Len(dispatched) = 2

\* --------------------------------------------------- ProtobufDelimitedBuffer

MaxMsgs == 2
MaxPayload == 1
PbBytes == {1, 128}

RECURSIVE Pow128(_)
Pow128(n) == IF n = 0 THEN 1 ELSE 128 * Pow128(n - 1)

\* _read_varint: index of the first byte without the continuation bit, 0 when
\* the loop runs off the buffer (ValueError "Incomplete varint")
VarintLen(buf) ==
  IF \E i \in 1..Len(buf) : buf[i] < 128
  THEN CHOOSE i \in 1..Len(buf) :
         buf[i] < 128 /\ \A j \in 1..(i - 1) : buf[j] >= 128
  ELSE 0

\* _read_varint: result |= (byte & 0x7F) << shift over the first n bytes
RECURSIVE VarintValue(_, _)
VarintValue(buf, n) ==
  IF n = 0 THEN 0
  ELSE VarintValue(buf, n - 1) + (buf[n] % 128) * Pow128(n - 1)

NoMessage(buf) == [found |-> FALSE, msg |-> <<>>, remaining |-> buf]

\* mutant of ExtractNextMessage: the completeness test forgets the prefix
ExtractNextMessageNoPrefixLen(buf) ==
  LET size_len == VarintLen(buf)
      size == VarintValue(buf, size_len)
  IN IF size_len = 0 THEN NoMessage(buf)
     ELSE IF Len(buf) < size THEN NoMessage(buf)
     ELSE [found |-> TRUE,
           msg |-> SubSeq(buf, size_len + 1,
                          IF size_len + size <= Len(buf) THEN size_len + size
                          ELSE Len(buf)),
           remaining |-> Drop(buf, IF size_len + size <= Len(buf)
                                   THEN size_len + size ELSE Len(buf))]

\* _extract_next_message: (msg, remaining), found = FALSE for msg None
ExtractNextMessage(buf) ==
  LET size_len == VarintLen(buf)
      size == VarintValue(buf, size_len)
  IN IF size_len = 0 THEN NoMessage(buf)
     ELSE IF Len(buf) < size_len + size THEN NoMessage(buf)
     ELSE [found |-> TRUE,
           msg |-> SubSeq(buf, size_len + 1, size_len + size),
           remaining |-> Drop(buf, size_len + size)]

\* the while loop of feed: the messages handed to the consumer, in order,
\* and the buffer it leaves
RECURSIVE FeedLoop(_, _)
FeedLoop(buf, out) ==
  LET r == ExtractNextMessage(buf)
  IN IF ~r.found THEN [out |-> out, buffer |-> buf]
     ELSE FeedLoop(r.remaining, Append(out, r.msg))

\* a length prefix as the sender may write it: the shortest varint, or the
\* same value with pad further continuation bytes
RECURSIVE PaddedVarint(_, _)
PaddedVarint(n, pad) ==
  IF pad = 0 /\ n < 128 THEN <<n>>
  ELSE <<128 + (n % 128)>> \o
       PaddedVarint(n \div 128, IF pad > 0 THEN pad - 1 ELSE 0)

WireOf(m) == PaddedVarint(Len(m.payload), m.pad) \o m.payload

RECURSIVE WireStream(_)
WireStream(ms) ==
  IF ms = <<>> THEN <<>> ELSE WireOf(Head(ms)) \o WireStream(Tail(ms))

PbMessages == [payload : SeqsUpTo(PbBytes, MaxPayload), pad : 0..1]

PbInit ==
  /\ pbMsgs \in SeqsUpTo(PbMessages, MaxMsgs)
  /\ pbPos = 0
  /\ pbSplit = FALSE
  /\ pbBuffer = <<>>
  /\ pbOut = <<>>

\* await feed(data) with the next k bytes of the stream
Feed(k) ==
  /\ pbPos + k <= Len(WireStream(pbMsgs))
  /\ LET data == SubSeq(WireStream(pbMsgs), pbPos + 1, pbPos + k)
         r == FeedLoop(pbBuffer \o data, <<>>)
     IN /\ pbBuffer' = r.buffer
        /\ pbOut' = pbOut \o r.out
  /\ pbPos' = pbPos + k
  /\ pbSplit' = (pbSplit \/ pbBuffer # <<>>)
  /\ UNCHANGED pbMsgs
  /\ UNCHANGED notPb

PbNext == \E k \in 1..(MaxMsgs * (MaxPayload + 2)) : Feed(k)

PbSpecInit ==
  PbInit /\ CodecOff /\ ReaderOff /\ HandlersOff /\ MainOff /\ VerifyOff

PbSpec == PbSpecInit /\ [][PbNext]_vars

\* number of messages whose prefix and payload lie within the first pos bytes
RECURSIVE CompleteAt(_, _)
CompleteAt(ms, pos) ==
  IF ms = <<>> \/ Len(WireOf(Head(ms))) > pos THEN 0
  ELSE 1 + CompleteAt(Tail(ms), pos - Len(WireOf(Head(ms))))

\* C6: N length-prefixed messages fed in arbitrary chunks give exactly N
\* consumer invocations with the original payloads in order, and no message
\* is handed over before its prefix and payload have been fed in full.
C6_Reassembly ==
  /\ Len(pbOut) <= CompleteAt(pbMsgs, pbPos)
  /\ \A i \in 1..Len(pbOut) : pbOut[i] = pbMsgs[i].payload
  /\ pbPos = Len(WireStream(pbMsgs)) =>
       pbOut = [i \in 1..Len(pbMsgs) |-> pbMsgs[i].payload]

\* two messages, one empty and one behind a two-byte prefix, have been
\* handed over, and some feed call started with part of a message buffered
C6_Witness ==
  /\ Len(pbMsgs) = 2
  /\ pbPos = Len(WireStream(pbMsgs))
  /\ pbSplit
  /\ Len(pbOut) = 2
  /\ pbMsgs[1].payload = <<>>
  /\ pbMsgs[2].pad = 1
  /\ Len(pbMsgs[2].payload) = MaxPayload

\* ----------------------------------------- SettingsHandler and FWInfoReader

MaxWaits == 2
MaxFwMsgs == 3

LB == "{"
RB == "}"
QT == "\""
CL == ":"

\* the serialization of a JSON value (objects have at most one member, so no
\* comma is ever written)
RECURSIVE Dumps(_)
Dumps(v) ==
  IF v.t = "str" THEN <<QT>> \o v.s \o <<QT>>
  ELSE IF v.m = <<>> THEN <<LB, RB>>
  ELSE <<LB, QT>> \o v.m[1].k \o <<QT, CL>> \o Dumps(v.m[1].v) \o <<RB>>

ParseFail == [ok |-> FALSE, val |-> JNone, next |-> 0]

\* a JSON string starting at the quote text[i]
ParseString(text, i) ==
  IF \E j \in (i + 1)..Len(text) : text[j] = QT
  THEN LET j == CHOOSE j \in (i + 1)..Len(text) :
                  text[j] = QT /\ \A x \in (i + 1)..(j - 1) : text[x] # QT
       IN [ok |-> TRUE, val |-> JStr(SubSeq(text, i + 1, j - 1)), next |-> j + 1]
  ELSE ParseFail

\* the JSON value starting at text[i], and where it ends
RECURSIVE ParseValue(_, _)
ParseValue(text, i) ==
  IF i > Len(text) THEN ParseFail
  ELSE IF text[i] = QT THEN ParseString(text, i)
  ELSE IF text[i] # LB THEN ParseFail
  ELSE IF i + 1 <= Len(text) /\ text[i + 1] = RB
       THEN [ok |-> TRUE, val |-> JObj(<<>>), next |-> i + 2]
  ELSE LET key == IF i + 1 <= Len(text) /\ text[i + 1] = QT
                  THEN ParseString(text, i + 1) ELSE ParseFail
       IN IF ~key.ok \/ key.next > Len(text) THEN ParseFail
          ELSE IF text[key.next] # CL THEN ParseFail
          ELSE LET v == ParseValue(text, key.next + 1)
               IN IF ~v.ok \/ v.next > Len(text) THEN ParseFail
                  ELSE IF text[v.next] # RB THEN ParseFail
                  ELSE [ok |-> TRUE,
                        val |-> JObj(<<[k |-> key.val.s, v |-> v.val]>>),
                        next |-> v.next + 1]

\* json.loads(self.buffer), None when it raises JSONDecodeError
Loads(text) ==
  LET r == ParseValue(text, 1)
  IN IF r.ok /\ r.next = Len(text) + 1 THEN r.val ELSE JNone

CountOf(chunk, ch) == Cardinality({i \in 1..Len(chunk) : chunk[i] = ch})

\* mutant of FulfilFuture: set_result without asking done()
FulfilFutureUnguarded(fut, value) ==
  IF fut.state # "none"
  THEN [fut |-> [state |-> "done", result |-> value], set |-> TRUE]
  ELSE [fut |-> fut, set |-> FALSE]

\* if the future is there and not done(): set_result(value)
FulfilFuture(fut, value) ==
  IF fut.state = "pending"
  THEN [fut |-> [state |-> "done", result |-> value], set |-> TRUE]
  ELSE [fut |-> fut, set |-> FALSE]

JStrings == {<<"a">>, <<LB>>, <<RB>>}
JLeaves == {JStr(x) : x \in JStrings} \cup {JObj(<<>>)}
JInner == {JObj(<<[k |-> <<"a">>, v |-> JStr(x)]>>) : x \in JStrings}
JObjects == {JObj(<<>>)} \cup
            {JObj(<<[k |-> <<"a">>, v |-> x]>>) : x \in JLeaves \cup JInner}

\* objects without a brace inside a string
PlainObjects ==
  {JObj(<<>>), JObj(<<[k |-> <<"a">>, v |-> JStr(<<"a">>)]>>),
   JObj(<<[k |-> <<"a">>, v |-> JObj(<<>>)]>>)}

\* text received before any opening brace
IdleTexts == {<<"x">>, <<RB>>}

\* a response cut before its closing brace
TruncatedTexts == {<<LB>>, <<LB, QT, "a", QT, CL>>}

\* what the device sends on the settings channel: one serialized object, two
\* of them back to back, or an object after stray text or after a response
\* that was cut
ShStreams == {Dumps(o) : o \in JObjects} \cup
             {Dumps(o1) \o Dumps(o2) : o1, o2 \in JObjects} \cup
             {pre \o Dumps(o) : pre \in IdleTexts \cup TruncatedTexts,
                                o \in PlainObjects}

\* where the object of a stream starts: after the stray or cut text, if any
CutOf(stream) ==
  LET Pre == {pre \in IdleTexts \cup TruncatedTexts :
                \E o \in PlainObjects : stream = pre \o Dumps(o)}
  IN IF Pre = {} THEN 0 ELSE Len(CHOOSE pre \in Pre : TRUE)

Serials == {"S1", "S2"}
\* a decoded CommandMessage: with res.dev_info, without it, or unparsable
FwResponses == {[kind |-> "dev_info", serial |-> x] : x \in Serials} \cup
               {[kind |-> "no_dev_info", serial |-> ""],
                [kind |-> "malformed", serial |-> ""]}

\* SettingsHandler.__init__, and the text the device is going to send
ShInit ==
  /\ shStream \in ShStreams
  /\ shPos = 0
  /\ sh_buffer = <<>>
  /\ brace_count = 0
  /\ in_json = FALSE
  /\ response_future = NoFuture
  /\ shCaller = "idle"
  /\ shWaits = <<>>

\* FWInfoReader.__init__
FwInit ==
  /\ serial_future = [state |-> "pending", result |-> ""]
  /\ fwSeen = <<>>
  /\ fwCaller = "idle"
  /\ fwRet = ""

\* the two handlers share no state: a run exercises one of them
HandlersInit == (ShInit /\ FwOff) \/ (ShOff /\ FwInit)

\* SettingsHandler.handle(payload) with the next k characters of the stream
Handle(k) ==
  /\ shCaller # "off"
  /\ shPos + k <= Len(shStream)
  /\ LET chunk == SubSeq(shStream, shPos + 1, shPos + k)
         buf == sh_buffer \o chunk
         count == brace_count + CountOf(chunk, LB) - CountOf(chunk, RB)
         started == in_json \/ CountOf(chunk, LB) > 0
         json_obj == Loads(buf)
         f == FulfilFuture(response_future, json_obj)
         n == Len(shWaits)
     IN /\ brace_count' = count
        /\ IF started /\ count = 0
           THEN /\ response_future' = f.fut
                /\ shWaits' =
                     IF n = 0 THEN shWaits
                     ELSE [shWaits EXCEPT
                             ![n].sets = @ + (IF f.set THEN 1 ELSE 0),
                             ![n].seen = IF shWaits[n].state = "waiting"
                                         THEN Append(@, json_obj) ELSE @]
                /\ sh_buffer' = <<>>
                /\ in_json' = FALSE
           ELSE /\ sh_buffer' = buf
                /\ in_json' = started
                /\ UNCHANGED <<response_future, shWaits>>
  /\ shPos' = shPos + k
  /\ UNCHANGED <<shStream, shCaller>>
  /\ UNCHANGED fwVars
  /\ UNCHANGED notHandlers

\* wait_response: a fresh future, then await wait_for(future, timeout)
WaitResponse ==
  /\ shCaller = "idle"
  /\ Len(shWaits) < MaxWaits
  /\ response_future' = [state |-> "pending", result |-> JNone]
  /\ shCaller' = "waiting"
  /\ shWaits' = Append(shWaits,
       [fresh |-> (shPos = 0), cut |-> (shPos = CutOf(shStream)), sets |-> 0, seen |-> <<>>, state |-> "waiting",
        ret |-> JNone, timedout |-> FALSE])
  /\ UNCHANGED <<shStream, shPos, sh_buffer, brace_count, in_json>>
  /\ UNCHANGED fwVars
  /\ UNCHANGED notHandlers

\* wait_for returns the result of the future
WaitReturn ==
  /\ shCaller = "waiting"
  /\ response_future.state = "done"
  /\ shWaits' = [shWaits EXCEPT ![Len(shWaits)].state = "returned",
                                ![Len(shWaits)].ret = response_future.result]
  /\ shCaller' = "idle"
  /\ UNCHANGED <<shStream, shPos, sh_buffer, brace_count, in_json,
                 response_future>>
  /\ UNCHANGED fwVars
  /\ UNCHANGED notHandlers

\* wait_for times out: it cancels the future, wait_response returns None
WaitTimeout ==
  /\ shCaller = "waiting"
  /\ response_future.state = "pending"
  /\ response_future' = [state |-> "cancelled", result |-> JNone]
  /\ shWaits' = [shWaits EXCEPT ![Len(shWaits)].state = "returned",
                                ![Len(shWaits)].ret = JNone,
                                ![Len(shWaits)].timedout = TRUE]
  /\ shCaller' = "idle"
  /\ UNCHANGED <<shStream, shPos, sh_buffer, brace_count, in_json>>
  /\ UNCHANGED fwVars
  /\ UNCHANGED notHandlers

\* FWInfoReader.handler(payload), resp being what FromString makes of payload
FwHandler(resp) ==
  /\ fwCaller # "off"
  /\ Len(fwSeen) < MaxFwMsgs
  /\ fwSeen' = Append(fwSeen, resp)
  /\ serial_future' = IF resp.kind = "dev_info"
                      THEN FulfilFuture(serial_future, resp.serial).fut
                      ELSE serial_future
  /\ UNCHANGED <<fwCaller, fwRet>>
  /\ UNCHANGED shVars
  /\ UNCHANGED notHandlers

\* wait_serial: await self._serial_future
WaitSerial ==
  /\ fwCaller = "idle"
  /\ fwCaller' = "waiting"
  /\ UNCHANGED <<serial_future, fwSeen, fwRet>>
  /\ UNCHANGED shVars
  /\ UNCHANGED notHandlers

SerialReturn ==
  /\ fwCaller = "waiting"
  /\ serial_future.state = "done"
  /\ fwCaller' = "returned"
  /\ fwRet' = serial_future.result
  /\ UNCHANGED <<serial_future, fwSeen>>
  /\ UNCHANGED shVars
  /\ UNCHANGED notHandlers

HandlersNext ==
  \/ \E k \in 1..(Len(shStream) - shPos) : Handle(k)
  \/ WaitResponse
  \/ WaitReturn
  \/ WaitTimeout
  \/ \E resp \in FwResponses : FwHandler(resp)
  \/ WaitSerial
  \/ SerialReturn

HandlersSpecInit ==
  HandlersInit /\ CodecOff /\ ReaderOff /\ PbOff /\ MainOff /\ VerifyOff

HandlersSpec == HandlersSpecInit /\ [][HandlersNext]_vars

\* C4: one serialized JSON object, fed in chunks cut anywhere while one
\* wait_response is pending, resolves that wait exactly once, with the
\* original object.
C4_OneObjectOneResult ==
  \A o \in JObjects :
    (/\ shStream = Dumps(o)
     /\ shPos = Len(shStream)
     /\ Len(shWaits) = 1
     /\ shWaits[1].fresh
     /\ ~shWaits[1].timedout)
    => (/\ shWaits[1].sets = 1
        /\ response_future.state = "done"
        /\ response_future.result = o)

\* the serial of the first response that carried dev_info
FirstSerial ==
  LET i == CHOOSE i \in 1..Len(fwSeen) :
             /\ fwSeen[i].kind = "dev_info"
             /\ \A j \in 1..(i - 1) : fwSeen[j].kind # "dev_info"
  IN fwSeen[i].serial

\* C7: a wait_response call gets at most one fulfilment; it returns the
\* first result completed while it was waiting, or None after a timeout;
\* later completions change nothing. The serial future keeps the first
\* serial received.
C7_SingleFulfilment ==
  /\ \A c \in 1..Len(shWaits) :
       /\ shWaits[c].sets <= 1
       /\ shWaits[c].state = "returned" =>
            IF shWaits[c].timedout
            THEN shWaits[c].ret = JNone /\ shWaits[c].seen = <<>>
            ELSE shWaits[c].seen # <<>> /\ shWaits[c].ret = shWaits[c].seen[1]
  /\ serial_future.state = "done" =>
       /\ \E i \in 1..Len(fwSeen) : fwSeen[i].kind = "dev_info"
       /\ serial_future.result = FirstSerial
  /\ fwCaller = "returned" => fwRet = FirstSerial

\* a call returned the first of two different results that were completed
\* while it was waiting, and an earlier call had timed out
C7_Witness ==
  /\ Len(shWaits) = 2
  /\ shWaits[1].timedout
  /\ shWaits[2].state = "returned"
  /\ Len(shWaits[2].seen) = 2
  /\ shWaits[2].seen[1] # shWaits[2].seen[2]
  /\ shWaits[2].ret = shWaits[2].seen[1]

\* the serial future was offered two different serials and wait_serial
\* returned the first
C7_SerialWitness ==
  /\ fwCaller = "returned"
  /\ \E i, j \in 1..Len(fwSeen) :
       /\ i < j
       /\ fwSeen[i].kind = "dev_info"
       /\ fwSeen[j].kind = "dev_info"
       /\ fwSeen[i].serial # fwSeen[j].serial

\* C15: text received while no object has started changes neither the depth
\* nor the text that is parsed: once the first opening brace of the object
\* has arrived the depth and the buffer are those of the object's text alone,
\* and the complete object resolves the pending wait with the object.
C15_IdleTextIgnored ==
  \A pre \in IdleTexts, o \in PlainObjects :
    (shStream = pre \o Dumps(o) /\ shPos > Len(pre)) =>
      LET fed == SubSeq(shStream, Len(pre) + 1, shPos)
      IN IF shPos < Len(shStream)
         THEN /\ in_json
              /\ brace_count = CountOf(fed, LB) - CountOf(fed, RB)
              /\ sh_buffer = fed
         ELSE /\ ~in_json
              /\ brace_count = 0
              /\ sh_buffer = <<>>
              /\ (Len(shWaits) = 1 /\ shWaits[1].fresh /\ ~shWaits[1].timedout)
                   => (/\ response_future.state = "done"
                       /\ response_future.result = o)

\* C16: two objects sent back to back are parsed one after the other wherever
\* the chunks are cut, also when a chunk holds the end of the first and the
\* start (or the whole) of the second; afterwards the buffer is empty and no
\* object is open.
C16_ObjectsInOneChunk ==
  \A o1, o2 \in PlainObjects :
    (/\ shStream = Dumps(o1) \o Dumps(o2)
     /\ shPos = Len(shStream)
     /\ Len(shWaits) = 1
     /\ shWaits[1].fresh
     /\ shWaits[1].state = "waiting")
    => (/\ shWaits[1].seen = <<o1, o2>>
        /\ sh_buffer = <<>>
        /\ ~in_json)

\* C19: after a response that was cut before its closing brace, a complete
\* object received while a wait_response called after the cut is pending
\* resolves that wait with the object.
C19_RecoversAfterTruncation ==
  \A pre \in TruncatedTexts, o \in PlainObjects :
    (/\ shStream = pre \o Dumps(o)
     /\ shPos = Len(shStream)
     /\ Len(shWaits) >= 1
     /\ shWaits[Len(shWaits)].cut
     /\ ~shWaits[Len(shWaits)].timedout)
    => (/\ shWaits[Len(shWaits)].sets = 1
        /\ response_future.state = "done"
        /\ response_future.result = o)

\* ------------------------------------------------------------------ main()

ReconnectAttempts == 10
MaxInflight == 2

EmptyDict == <<>>
PyNone == [some |-> FALSE, val |-> EmptyDict]
Some(d) == [some |-> TRUE, val |-> d]

\* `not received`: None or an empty dict
Falsy(r) == ~r.some \/ DOMAIN r.val = {}

setup_access_settings ==
  ("settings/acl_0" :> "ACL_ALL") @@ ("settings/key_0" :> "KEY_B64") @@
  ("save" :> "true")

lock_settings == ("settings/lock" :> "true") @@ ("save" :> "true")

settings_to_send == ("app/brightness" :> "25") @@ ("save" :> "true")

excluded_keys ==
  {"save", "reset", "settings/key_0", "settings/key_1", "settings/key_2"}

\* SettingsHandler.verify
Verify(expected, received) ==
  IF DOMAIN received = {} THEN FALSE
  ELSE \A key \in DOMAIN expected \ excluded_keys :
         key \in DOMAIN received /\ received[key] = expected[key]

\* upload_settings after its wait_response: the value it returns
UploadResult(verify_dict, received) ==
  IF Falsy(received) THEN FALSE
  ELSE IF DOMAIN verify_dict # {} THEN Verify(verify_dict, received.val)
  ELSE TRUE

\* mutant of IsLocked: every device is taken for a locked one
IsLockedAlways(d) == TRUE

\* received.get("settings/lock", False)
IsLocked(d) == "settings/lock" \in DOMAIN d /\ d["settings/lock"] = "true"

\* DTSettingsAuthorizer.sign_settings: the content is the base64 of the JSON
\* of the settings with the serial, the signature the CCM tag of the content
\* under the key and the all-zero nonce
SignSettings(settings, ser) ==
  LET settings_with_sn ==
        [k \in DOMAIN settings \cup {"sn"} |->
           IF k = "sn" THEN ser ELSE settings[k]]
      content == <<"b64", settings_with_sn>>
  IN ("cnt" :> content) @@ ("sig" :> <<"b64", "tag", "AUTH_KEY", content>>)

\* mutant of Proceeds: the result of upload_settings is never looked at
ProceedsAlways(step, ok) == TRUE

\* `if not ok: ... return` after the ACL/key and the lock upload
Proceeds(step, ok) == ok

\* mutant of MoreAttempts: one attempt too many
MoreAttemptsOffByOne(n) == n + 1 <= ReconnectAttempts

\* for i in range(10): another iteration follows iteration n (from 0)
MoreAttempts(n) == n + 1 < ReconnectAttempts

ReadFrame == [ch |-> "settings", kind |-> "read", body |-> EmptyDict]
WriteFrame(payload) == [ch |-> "settings", kind |-> "write", body |-> payload]
FwinfoFrame == [ch |-> "fwinfo", kind |-> "read_device_info", body |-> EmptyDict]
RestartFrame == [ch |-> "smp", kind |-> "restart", body |-> EmptyDict]

PendingFuture == [state |-> "pending", result |-> PyNone]

\* wait_response returns the result of its future, or None at the timeout
WaitValue ==
  IF response_future.state = "done" THEN response_future.result ELSE PyNone

\* wait_for cancels a future that is still pending at the timeout
FutureAfterWait ==
  IF response_future.state = "pending"
  THEN [state |-> "cancelled", result |-> PyNone]
  ELSE response_future

\* ---- the device: what it may do with a frame it receives

DeviceSerial == "ABC123"

DevInitials ==
  LET base == ("settings/acl_0" :> "ACL_OLD") @@ ("app/brightness" :> "10")
  IN {base, base @@ ("settings/lock" :> "false"),
      ("settings/lock" :> "true") @@ ("settings/acl_0" :> "ACL_ALL") @@
      ("app/brightness" :> "10")}

DevChoices(frame) ==
  CASE frame.kind = "write" -> {"apply", "ignore"}
    [] frame.kind = "read" -> {"snapshot", "empty", "garbled", "silent"}
    [] frame.kind = "read_device_info" -> {"dev_info", "no_dev_info", "silent"}
    [] OTHER -> {"reboot"}

\* what a working device does with the frame
RightChoice(frame) ==
  CASE frame.kind = "write" -> "apply"
    [] frame.kind = "read" -> "snapshot"
    [] frame.kind = "read_device_info" -> "dev_info"
    [] OTHER -> "reboot"

DevResponds(c) == c \in {"snapshot", "empty", "garbled", "dev_info", "no_dev_info"}

\* the settings a write carries: those of the signed content, or its own
WrittenSettings(body) ==
  IF "cnt" \in DOMAIN body THEN body["cnt"][2] ELSE body

DevMerge(dev, d) ==
  LET keys == DOMAIN d \ (excluded_keys \cup {"sn"})
  IN [k \in DOMAIN dev \cup keys |-> IF k \in keys THEN d[k] ELSE dev[k]]

DevSettingsAfter(frame, c) ==
  IF c = "apply" THEN DevMerge(devSettings, WrittenSettings(frame.body))
  ELSE devSettings

DevResponse(frame, c) ==
  [ch |-> frame.ch, kind |-> c, req |-> Len(written) + 1,
   val |-> CASE c = "snapshot" -> Some(devSettings)
             [] c = "empty" -> Some(EmptyDict)
             [] OTHER -> PyNone,
   serial |-> IF c = "dev_info" THEN DeviceSerial ELSE ""]

\* transport.write(Slip.encode(...)) and what the device makes of the frame;
\* a device that reboots sends nothing of what it still had to send, and main
\* closes the port right after the restart frame
Send(frame) ==
  /\ written' = Append(written, frame)
  /\ \E c \in DevChoices(frame) :
       /\ DevResponds(c) => Len(inflight) < MaxInflight
       /\ devSettings' = DevSettingsAfter(frame, c)
       /\ devFaulty' = (devFaulty \/ c # RightChoice(frame))
       /\ inflight' = IF c = "reboot" THEN <<>>
                      ELSE IF DevResponds(c)
                      THEN Append(inflight, DevResponse(frame, c))
                      ELSE inflight

NoSend == UNCHANGED <<written, devSettings, inflight, devFaulty>>

\* dispatcher.start raises: the port cannot be opened
OpenFails ==
  /\ devFaulty' = TRUE
  /\ UNCHANGED <<written, devSettings, inflight>>

\* whether the wait_response that ends now, or an earlier one, timed out
TimedOutAfterWait == mTimedOut \/ response_future.state = "pending"

CloseOf(ts, t) == [ts EXCEPT ![t] = "closed"]

MainInit ==
  /\ pc = "start"
  /\ transport = 0
  /\ transports = <<>>
  /\ written = <<>>
  /\ serial = ""
  /\ signed_settings = EmptyDict
  /\ attempt = 0
  /\ outcome = ""
  /\ mFailed = {}
  /\ signCalls = <<>>
  /\ mAttempts = 0
  /\ mFirstOk = 0
  /\ devSettings \in DevInitials
  /\ inflight = <<>>
  /\ devInitial = devSettings
  /\ devFaulty = FALSE
  /\ mTimedOut = FALSE
  /\ response_future = [state |-> "none", result |-> PyNone]
  /\ serial_future = [state |-> "pending", result |-> ""]

\* dispatcher.start, read_settings, wait_response (lines 63-68)
Start ==
  /\ pc = "start"
  /\ \/ /\ transports' = Append(transports, "open")
        /\ transport' = Len(transports) + 1
        /\ Send(ReadFrame)
        /\ response_future' = PendingFuture
        /\ pc' = "wait_initial"
     \/ /\ pc' = "raised"
        /\ OpenFails
        /\ UNCHANGED <<transports, transport, response_future>>
  /\ UNCHANGED <<serial, signed_settings, attempt, outcome, mFailed, signCalls,
                 mAttempts, mFirstOk, serial_future>>
  /\ UNCHANGED <<devInitial, mTimedOut>>
  /\ UNCHANGED notMain

\* lines 68-87 and 104-113, up to the next await
AfterInitialRead ==
  /\ pc = "wait_initial"
  /\ response_future' = FutureAfterWait
  /\ LET received == WaitValue
     IN \/ /\ Falsy(received)
           /\ transports' = CloseOf(transports, transport)
           /\ pc' = "done"
           /\ outcome' = "No JSON received on initial read"
           /\ mFailed' = mFailed \cup {"initial"}
           /\ NoSend
        \/ /\ ~Falsy(received)
           /\ ~IsLocked(received.val)
           /\ Send(WriteFrame(setup_access_settings))
           /\ pc' = "sleep_acl"
           /\ UNCHANGED <<transports, outcome, mFailed>>
        \/ /\ ~Falsy(received)
           /\ IsLocked(received.val)
           /\ Send(FwinfoFrame)
           /\ pc' = "wait_serial"
           /\ UNCHANGED <<transports, outcome, mFailed>>
  /\ UNCHANGED <<transport, serial, signed_settings, attempt, signCalls,
                 mAttempts, mFirstOk, serial_future>>
  /\ mTimedOut' = TimedOutAfterWait
  /\ UNCHANGED devInitial
  /\ UNCHANGED notMain

SleepPc == [acl |-> "sleep_acl", lock |-> "sleep_lock", signed |-> "sleep_signed"]
WaitPc == [acl |-> "wait_acl", lock |-> "wait_lock", signed |-> "wait_signed"]

\* upload_settings after its sleep: read_settings, wait_response (lines 34-39)
UploadReadBack(step) ==
  /\ pc = SleepPc[step]
  /\ Send(ReadFrame)
  /\ response_future' = PendingFuture
  /\ pc' = WaitPc[step]
  /\ UNCHANGED <<transport, transports, serial, signed_settings, attempt,
                 outcome, mFailed, signCalls, mAttempts, mFirstOk,
                 serial_future>>
  /\ UNCHANGED <<devInitial, mTimedOut>>
  /\ UNCHANGED notMain

\* lines 39-52 and 86-96 for the ACL/key upload
AfterAclReadBack ==
  /\ pc = "wait_acl"
  /\ response_future' = FutureAfterWait
  /\ LET ok == UploadResult(setup_access_settings, WaitValue)
     IN /\ mFailed' = IF ok THEN mFailed ELSE mFailed \cup {"acl"}
        /\ IF Proceeds("acl", ok)
           THEN /\ Send(WriteFrame(lock_settings))
                /\ pc' = "sleep_lock"
                /\ UNCHANGED <<transports, outcome>>
           ELSE /\ transports' = CloseOf(transports, transport)
                /\ pc' = "done"
                /\ outcome' = "Failed to prepare ACL/key on unlocked device"
                /\ NoSend
  /\ UNCHANGED <<transport, serial, signed_settings, attempt, signCalls,
                 mAttempts, mFirstOk, serial_future>>
  /\ mTimedOut' = TimedOutAfterWait
  /\ UNCHANGED devInitial
  /\ UNCHANGED notMain

\* lines 39-52 and 95-113 for the lock upload
AfterLockReadBack ==
  /\ pc = "wait_lock"
  /\ response_future' = FutureAfterWait
  /\ LET ok == UploadResult(lock_settings, WaitValue)
     IN /\ mFailed' = IF ok THEN mFailed ELSE mFailed \cup {"lock"}
        /\ IF Proceeds("lock", ok)
           THEN /\ Send(FwinfoFrame)
                /\ pc' = "wait_serial"
                /\ UNCHANGED <<transports, outcome>>
           ELSE /\ transports' = CloseOf(transports, transport)
                /\ pc' = "done"
                /\ outcome' = "Failed to lock device"
                /\ NoSend
  /\ UNCHANGED <<transport, serial, signed_settings, attempt, signCalls,
                 mAttempts, mFirstOk, serial_future>>
  /\ mTimedOut' = TimedOutAfterWait
  /\ UNCHANGED devInitial
  /\ UNCHANGED notMain

\* wait_serial returns (it has no timeout); sign_settings; upload (114-124)
AfterSerial ==
  /\ pc = "wait_serial"
  /\ serial_future.state = "done"
  /\ serial' = serial_future.result
  /\ signed_settings' = SignSettings(settings_to_send, serial')
  /\ signCalls' = Append(signCalls,
                         [settings |-> settings_to_send, serial |-> serial'])
  /\ Send(WriteFrame(signed_settings'))
  /\ pc' = "sleep_signed"
  /\ UNCHANGED <<transport, transports, attempt, outcome, mFailed, mAttempts,
                 mFirstOk, response_future, serial_future>>
  /\ UNCHANGED <<devInitial, mTimedOut>>
  /\ UNCHANGED notMain

\* the result of the signed upload is dropped; restart_device; close (124-132)
AfterSignedReadBack ==
  /\ pc = "wait_signed"
  /\ response_future' = FutureAfterWait
  /\ LET ok == UploadResult(settings_to_send, WaitValue)
     IN mFailed' = IF ok THEN mFailed ELSE mFailed \cup {"signed"}
  /\ Send(RestartFrame)
  /\ transports' = CloseOf(transports, transport)
  /\ attempt' = 0
  /\ pc' = "reconnect_sleep"
  /\ UNCHANGED <<transport, serial, signed_settings, outcome, signCalls,
                 mAttempts, mFirstOk, serial_future>>
  /\ mTimedOut' = TimedOutAfterWait
  /\ UNCHANGED devInitial
  /\ UNCHANGED notMain

\* the end of one iteration of the reconnect loop without break: the next
\* iteration, or the else clause and the final transport.close() (147-151)
NextIteration(t) ==
  IF MoreAttempts(attempt)
  THEN /\ attempt' = attempt + 1
       /\ pc' = "reconnect_sleep"
       /\ UNCHANGED <<outcome, transports>>
  ELSE /\ outcome' = "Device restart timed out"
       /\ transports' = CloseOf(transports, t)
       /\ pc' = "done"
       /\ UNCHANGED attempt

\* after the sleep of an iteration: dispatcher.start, read_settings,
\* wait_response, or the exception of start caught (lines 136-146)
ReconnectAttempt ==
  /\ pc = "reconnect_sleep"
  /\ mAttempts' = mAttempts + 1
  /\ \/ /\ transports' = Append(transports, "open")
        /\ transport' = Len(transports) + 1
        /\ Send(ReadFrame)
        /\ response_future' = PendingFuture
        /\ pc' = "wait_reconnect"
        /\ UNCHANGED <<attempt, outcome>>
     \/ /\ NextIteration(transport)
        /\ OpenFails
        /\ UNCHANGED <<transport, response_future>>
  /\ UNCHANGED <<serial, signed_settings, mFailed, signCalls, mFirstOk,
                 serial_future>>
  /\ UNCHANGED <<devInitial, mTimedOut>>
  /\ UNCHANGED notMain

\* lines 141-151 after the read of a reconnect attempt
AfterReconnectRead ==
  /\ pc = "wait_reconnect"
  /\ response_future' = FutureAfterWait
  /\ IF ~Falsy(WaitValue)
     THEN /\ outcome' = "Device restarted successfully"
          /\ transports' = CloseOf(transports, transport)
          /\ pc' = "done"
          /\ mFirstOk' = mAttempts
          /\ UNCHANGED attempt
     ELSE /\ NextIteration(transport)
          /\ UNCHANGED mFirstOk
  /\ NoSend
  /\ UNCHANGED <<transport, serial, signed_settings, mFailed, signCalls,
                 mAttempts, serial_future>>
  /\ mTimedOut' = TimedOutAfterWait
  /\ UNCHANGED devInitial
  /\ UNCHANGED notMain

AnyOpen == \E t \in 1..Len(transports) : transports[t] = "open"

\* a response of the device reaches its handler through an open transport:
\* SettingsHandler.handle completes a JSON text, FWInfoReader.handler a message
Deliver ==
  /\ inflight # <<>>
  /\ AnyOpen
  /\ LET r == Head(inflight)
     IN /\ response_future' =
             IF r.ch = "settings"
             THEN FulfilFuture(response_future, r.val).fut
             ELSE response_future
        /\ serial_future' =
             IF r.kind = "dev_info"
             THEN FulfilFuture(serial_future, r.serial).fut
             ELSE serial_future
  /\ inflight' = Tail(inflight)
  /\ UNCHANGED <<pc, transport, transports, written, serial, signed_settings,
                 attempt, outcome, mFailed, signCalls, mAttempts, mFirstOk,
                 devSettings>>
  /\ UNCHANGED <<devInitial, devFaulty, mTimedOut>>
  /\ UNCHANGED notMain

\* a response sent while no transport is open is lost
Lose ==
  /\ inflight # <<>>
  /\ ~AnyOpen
  /\ inflight' = Tail(inflight)
  /\ UNCHANGED <<pc, transport, transports, written, serial, signed_settings,
                 attempt, outcome, mFailed, signCalls, mAttempts, mFirstOk,
                 devSettings, response_future, serial_future>>
  /\ UNCHANGED <<devInitial, devFaulty, mTimedOut>>
  /\ UNCHANGED notMain

MainStep ==
  \/ Start
  \/ AfterInitialRead
  \/ \E step \in {"acl", "lock", "signed"} : UploadReadBack(step)
  \/ AfterAclReadBack
  \/ AfterLockReadBack
  \/ AfterSerial
  \/ AfterSignedReadBack
  \/ ReconnectAttempt
  \/ AfterReconnectRead

MainNext == MainStep \/ Deliver \/ Lose

MainSpecInit ==
  /\ MainInit
  /\ CodecOff /\ ReaderOff /\ PbOff /\ ShRestOff /\ FwRestOff /\ VerifyOff

MainSpec == MainSpecInit /\ [][MainNext]_vars

\* the event loop runs main() whenever it can go on (every sleep and every
\* wait_for timeout ends), and bytes on the line reach the reader
FairMainSpec ==
  MainSpecInit /\ [][MainNext]_vars /\ WF_vars(MainStep) /\ WF_vars(Deliver \/ Lose)

\* ---- properties of main()

Sent(kind) == \E i \in 1..Len(written) : written[i].kind = kind

Returned == pc = "done"

\* C2: after a failed verification or a timed-out read in the initial read,
\* the ACL/key setup, the lock or the signed upload, main never sends the
\* restart frame and never makes a reconnect attempt.
C2_FailureIsTerminal == mFailed # {} => ~Sent("restart") /\ mAttempts = 0

\* C3: main always terminates: whatever the device sends or fails to send,
\* main eventually returns, or at least stops with a raised fault.
C3_Terminates == <>(pc \in {"done", "raised"})

\* C8: the reconnect phase makes at most ReconnectAttempts attempts; the first
\* attempt whose read returns a non-empty snapshot is the last one and gives
\* the success outcome; when main returns after a restart without such a read
\* it has made all the attempts and reports the restart timeout; no exception
\* escapes main once it has connected.
C8_ReconnectBounded ==
  /\ mAttempts <= ReconnectAttempts
  /\ mFirstOk # 0 =>
       /\ mAttempts = mFirstOk
       /\ Returned
       /\ outcome = "Device restarted successfully"
  /\ Returned /\ Sent("restart") /\ mFirstOk = 0 =>
       /\ mAttempts = ReconnectAttempts
       /\ outcome = "Device restart timed out"
  /\ pc = "raised" => written = <<>>

\* all the attempts made and failed, some at the open of the transport and
\* some at the read
C8_Witness ==
  /\ Returned
  /\ outcome = "Device restart timed out"
  /\ mAttempts = ReconnectAttempts
  /\ Len(transports) > 1
  /\ Len(transports) < 1 + ReconnectAttempts

\* C9: when the ACL/key upload or the lock upload fails its verification or
\* its read-back times out, main has returned without writing a firmware-info
\* request, without calling sign_settings, and without a further write.
C9_StopsBeforeSigning ==
  mFailed \cap {"acl", "lock"} # {} =>
    /\ Returned
    /\ ~Sent("read_device_info")
    /\ signCalls = <<>>
    /\ ~Sent("restart")

\* the ACL/key upload verified, the lock upload did not, main returned
C9_Witness ==
  /\ mFailed = {"lock"}
  /\ Returned
  /\ outcome = "Failed to lock device"
  /\ \E i \in 1..Len(written) :
       written[i].kind = "write" /\ "settings/lock" \in DOMAIN written[i].body

\* ---- the run against a device that works

\* the frames main writes, in order, against an unlocked device that works
HappyFrames ==
  <<ReadFrame, WriteFrame(setup_access_settings), ReadFrame,
    WriteFrame(lock_settings), ReadFrame, FwinfoFrame,
    WriteFrame(SignSettings(settings_to_send, DeviceSerial)), ReadFrame,
    RestartFrame, ReadFrame>>

FrameEq(f, g) ==
  /\ f.ch = g.ch
  /\ f.kind = g.kind
  /\ DOMAIN f.body = DOMAIN g.body
  /\ \A k \in DOMAIN f.body : f.body[k] = g.body[k]

\* the device started unlocked, has done what every frame asked of it so
\* far, the port opened at every attempt, and no wait_response timed out
HappySoFar ==
  /\ ~devFaulty
  /\ ~mTimedOut
  /\ ~("settings/lock" \in DOMAIN devInitial /\ devInitial["settings/lock"] = "true")

\* C12: against an unlocked device that answers every request correctly and
\* in time, main writes the initial read, the ACL/key upload and its read-back,
\* the lock upload and its read-back, the firmware-info request, the upload of
\* the target settings signed with the serial received and its read-back, the
\* restart and one read after reconnecting, in this order and nothing else,
\* every upload verifies, and main returns with the success outcome after a
\* single reconnect attempt.
C12_HappyPath ==
  HappySoFar =>
    /\ Len(written) <= Len(HappyFrames)
    /\ \A i \in 1..Len(written) : FrameEq(written[i], HappyFrames[i])
    /\ mFailed = {}
    /\ pc # "raised"
    /\ Len(written) >= 7 =>
         signCalls = <<[settings |-> settings_to_send, serial |-> DeviceSerial]>>
    /\ Len(written) < 7 => signCalls = <<>>
    /\ mAttempts = (IF Len(written) = Len(HappyFrames) THEN 1 ELSE 0)
    /\ Returned =>
         /\ outcome = "Device restarted successfully"
         /\ Len(written) = Len(HappyFrames)
         /\ mFirstOk = 1
         /\ devSettings["app/brightness"] = "25"
         /\ devSettings["settings/lock"] = "true"

\* main returned with the success outcome from such a run
C12_Witness ==
  /\ HappySoFar
  /\ Returned
  /\ outcome = "Device restarted successfully"
  /\ Len(written) = Len(HappyFrames)

OpenTransports == {t \in 1..Len(transports) : transports[t] = "open"}

\* C18: a wait_response of main is only ever resolved by the response to the
\* read request written right before it: whenever a response fulfils the
\* pending future, it answers the last frame written.
C18_NoStaleResponse ==
  [][(response_future.state = "pending" /\ response_future'.state = "done")
       => Head(inflight).req = Len(written)]_vars

\* C20: at most one transport is open at any time, and none is open once
\* main has returned.
C20_TransportsClosed ==
  /\ Cardinality(OpenTransports) <= 1
  /\ Returned => OpenTransports = {}

\* -------------------------------------------------- SettingsHandler.verify

MaxKeys == 2

VerifyKeys == {"a", "b", "save", "settings/key_0"}
VerifyValues == {1, 2}

\* a dict as Python iterates it: its items in insertion order, keys distinct
ExpectedDicts ==
  {e \in SeqsUpTo([key : VerifyKeys, value : VerifyValues], MaxKeys) :
     \A i, j \in 1..Len(e) : i # j => e[i].key # e[j].key}

ReceivedDicts == UNION {[D -> VerifyValues] : D \in SUBSET {"a", "b"}}

\* the dict of a sequence of items
AsDict(items) ==
  [k \in {items[i].key : i \in 1..Len(items)} |->
     LET i == CHOOSE i \in 1..Len(items) : items[i].key = k
     IN items[i].value]

\* mutant of VerifyLoop: the loop stops at the first mismatch or missing key
RECURSIVE VerifyLoopShortCircuit(_, _, _, _)
VerifyLoopShortCircuit(items, received, is_verified, log) ==
  IF items = <<>> \/ ~is_verified
  THEN [is_verified |-> is_verified, log |-> log]
  ELSE LET key == Head(items).key
           value == Head(items).value
       IN IF key \in excluded_keys
          THEN VerifyLoopShortCircuit(Tail(items), received, is_verified, log)
          ELSE IF key \in DOMAIN received /\ received[key] = value
          THEN VerifyLoopShortCircuit(Tail(items), received, is_verified, log)
          ELSE VerifyLoopShortCircuit(Tail(items), received, FALSE,
                                      Append(log, key))

\* for key, value in expected.items(): the keys logged as mismatching or
\* missing, and is_verified
RECURSIVE VerifyLoop(_, _, _, _)
VerifyLoop(items, received, is_verified, log) ==
  IF items = <<>>
  THEN [is_verified |-> is_verified, log |-> log]
  ELSE LET key == Head(items).key
           value == Head(items).value
       IN IF key \in excluded_keys
          THEN VerifyLoop(Tail(items), received, is_verified, log)
          ELSE IF key \in DOMAIN received /\ received[key] = value
          THEN VerifyLoop(Tail(items), received, is_verified, log)
          ELSE VerifyLoop(Tail(items), received, FALSE, Append(log, key))

\* SettingsHandler.verify(expected, received)
VerifyCall(expected, received) ==
  IF DOMAIN received = {}
  THEN [is_verified |-> FALSE, log |-> <<>>]
  ELSE VerifyLoop(expected, received, TRUE, <<>>)

VerifyInit ==
  /\ vfExpected \in ExpectedDicts
  /\ vfReceived \in ReceivedDicts
  /\ vfLog = <<>>
  /\ vfResult = FALSE
  /\ vfPc = "call"

DoVerify ==
  /\ vfPc = "call"
  /\ LET r == VerifyCall(vfExpected, vfReceived)
     IN /\ vfResult' = r.is_verified
        /\ vfLog' = r.log
  /\ vfPc' = "done"
  /\ UNCHANGED <<vfExpected, vfReceived>>
  /\ UNCHANGED notVerify

VerifyNext == DoVerify

VerifySpecInit ==
  /\ VerifyInit
  /\ CodecOff /\ ReaderOff /\ PbOff /\ HandlersOff /\ MainOff

VerifySpec == VerifySpecInit /\ [][VerifyNext]_vars

\* the positions of the keys of expected that verify has to report: not
\* excluded, and missing from received or there with another value
Mismatches(expected, received) ==
  {i \in 1..Len(expected) :
     /\ expected[i].key \notin excluded_keys
     /\ ~(/\ expected[i].key \in DOMAIN received
          /\ received[expected[i].key] = expected[i].value)}

\* the keys at the positions of P, in the order of the items
RECURSIVE KeysAt(_, _, _)
KeysAt(expected, P, i) ==
  IF i > Len(expected) THEN <<>>
  ELSE (IF i \in P THEN <<expected[i].key>> ELSE <<>>)
         \o KeysAt(expected, P, i + 1)

\* C11 as stated: verify returns true exactly when every key of expected
\* outside the exclusion set is in received with an equal value, also for an
\* empty received, and it reports every mismatching or missing key.
C11_VerifyIff ==
  vfPc = "done" =>
    /\ vfResult = (Mismatches(vfExpected, vfReceived) = {})
    /\ vfLog = KeysAt(vfExpected, Mismatches(vfExpected, vfReceived), 1)

\* C11 amended: verify returns true exactly when received is not empty and
\* every key of expected outside the exclusion set is in received with an
\* equal value; with a non-empty received it reports every mismatching or
\* missing key, with an empty one it reports none.
C11_VerifyIffNonEmpty ==
  vfPc = "done" =>
    /\ vfResult = (/\ DOMAIN vfReceived # {}
                   /\ Mismatches(vfExpected, vfReceived) = {})
    /\ vfResult = Verify(AsDict(vfExpected), vfReceived)
    /\ vfLog = IF DOMAIN vfReceived = {} THEN <<>>
               ELSE KeysAt(vfExpected, Mismatches(vfExpected, vfReceived), 1)

\* two keys reported in one call: a mismatch, then a missing key
C11_Witness ==
  /\ vfPc = "done"
  /\ ~vfResult
  /\ Len(vfLog) = 2
  /\ vfLog[1] \in DOMAIN vfReceived
  /\ vfLog[2] \notin DOMAIN vfReceived

====
